---- MODULE Spec2Model ----
(***************************************************************************)
(* Daily Diet API (src/dd.js): users, JWT sessions, owner-scoped meals and *)
(* the adherence metrics, modelled as a state machine.                     *)
(*                                                                         *)
(* The two tables are kept as sequences in rowid order, which is the order *)
(* in which SQLite scans a table for a SELECT without ORDER BY.  Every     *)
(* route handler issues a single SQL statement after the synchronous       *)
(* authenticate middleware, so a handler is one atomic action; its         *)
(* response stays in `last' until the client has received it.              *)
(*                                                                         *)
(* SpecRegister and SpecOverlap take the handlers apart at their awaits    *)
(* and run several requests together: registrations (bcrypt.hash, then the *)
(* insert), and one owner's writes and lists (the statement, then the      *)
(* response).                                                              *)
(***************************************************************************)
EXTENDS Integers, Sequences, FiniteSets, Bags, TLC

VARIABLES
  users,     \* table users, rows in rowid order
  userSeq,   \* AUTOINCREMENT counter of users.id
  meals,     \* table meals, rows in rowid order
  mealSeq,   \* AUTOINCREMENT counter of meals.id
  now,       \* the clock, in seconds (the unit of the JWT iat/exp fields)
  ticks,     \* number of clock advances so far (bounds the exploration)
  issued,    \* the tokens handed out by POST /login
  created,   \* history: ids of the meals in the order they were inserted
  last,      \* the request just handled and its response, until received
  input,     \* metrics engine on its own: the rows it is given
  output,    \* metrics engine on its own: the result it produced
  flight,    \* handlers running together: the bag of their requests, each at its await
  writeSeq,  \* history: number of create, update and delete requests begun
  log,       \* history: the statements of those requests, in the order SQLite ran them
  returned   \* history: the create, update and delete requests already answered

vars == <<users, userSeq, meals, mealSeq, now, ticks, issued, created, last,
          input, output, flight, writeSeq, log, returned>>

-----------------------------------------------------------------------------
(* Bounds of the exploration *)

MaxUsers == 2    \* rows ever inserted into users
MaxTokens == 2   \* tokens ever issued
MaxEvents == 3   \* rows ever inserted into meals plus clock advances
MaxInput == 7    \* rows given to the metrics engine on its own
MaxFlight == 2   \* handlers running at the same time
MaxWrites == 2   \* create, update and delete requests begun while handlers overlap

(* Program constants *)

ExpiresIn == 86400

JWT_SECRET == "secret"

-----------------------------------------------------------------------------
(* Values *)

Undefined == "undefined"
NULL == "NULL"

Emails == {"ana@x", "bia@x"}
Passwords == {"pw1"}
Guesses == Passwords \cup {"pw2"}
Names == {"n"}

Range(s) == {s[i] : i \in 1..Len(s)}

-----------------------------------------------------------------------------
(* bcryptjs: a salted one-way hash and its comparison.  The hash is a value *)
(* of its own kind, never the password.                                     *)

bcrypt_hash(password) == <<"$2a$08$", password>>

\* a comparison that accepts every password
bcrypt_compare_any(password, hash) == TRUE

bcrypt_compare(password, hash) == hash = bcrypt_hash(password)

-----------------------------------------------------------------------------
(* jsonwebtoken.  A token is its payload {id, iat, exp} and a signature,   *)
(* the HMAC of the payload under a key, modelled as the tuple of both.     *)

HS256(id, iat, exp, key) == <<key, id, iat, exp>>

jwt_sign(id, secret, t) ==
  [wf |-> TRUE, id |-> id, iat |-> t, exp |-> t + ExpiresIn,
   sig |-> HS256(id, t, t + ExpiresIn, secret)]

Garbage == [wf |-> FALSE, id |-> 0, iat |-> 0, exp |-> 0, sig |-> <<"", 0, 0, 0>>]

\* jwt_verify with a token still accepted at the instant of its expiry
jwt_verify_inclusive(token, secret, t) ==
  IF ~token.wf THEN [err |-> TRUE, id |-> 0]
  ELSE IF token.sig # HS256(token.id, token.iat, token.exp, secret)
    THEN [err |-> TRUE, id |-> 0]
  ELSE IF t > token.exp THEN [err |-> TRUE, id |-> 0]
  ELSE [err |-> FALSE, id |-> token.id]

\* err = TRUE: the callback gets an error; otherwise decoded is the payload.
jwt_verify(token, secret, t) ==
  IF ~token.wf THEN [err |-> TRUE, id |-> 0]
  ELSE IF token.sig # HS256(token.id, token.iat, token.exp, secret)
    THEN [err |-> TRUE, id |-> 0]
  ELSE IF t >= token.exp THEN [err |-> TRUE, id |-> 0]
  ELSE [err |-> FALSE, id |-> token.id]

-----------------------------------------------------------------------------
(* The authenticate middleware.  A header is the list of its parts between *)
(* single spaces; <<>> is a request without Authorization header.          *)

\* authenticate with the token decoded but never verified
authenticate_decode(authHeader, t) ==
  IF authHeader = <<>>
    THEN [next |-> FALSE, status |-> 401, msg |-> "Token required", userId |-> 0]
  ELSE IF Len(authHeader) < 2 \/ ~authHeader[2].wf
    THEN [next |-> FALSE, status |-> 401, msg |-> "Invalid token", userId |-> 0]
  ELSE [next |-> TRUE, status |-> 0, msg |-> "", userId |-> authHeader[2].id]

\* jwt.verify without a token fails with 'jwt must be provided'
authenticate(authHeader, t) ==
  IF authHeader = <<>>
    THEN [next |-> FALSE, status |-> 401, msg |-> "Token required", userId |-> 0]
  ELSE IF Len(authHeader) < 2
    THEN [next |-> FALSE, status |-> 401, msg |-> "Invalid token", userId |-> 0]
  ELSE LET v == jwt_verify(authHeader[2], JWT_SECRET, t) IN
    IF v.err
      THEN [next |-> FALSE, status |-> 401, msg |-> "Invalid token", userId |-> 0]
      ELSE [next |-> TRUE, status |-> 0, msg |-> "", userId |-> v.id]

-----------------------------------------------------------------------------
(* Request bodies.  A field the JSON body lacks is undefined.               *)

Body(name, description, datetime, on_diet) ==
  [name |-> name, description |-> description, datetime |-> datetime,
   on_diet |-> on_diet]

NoBody == Body(Undefined, Undefined, Undefined, Undefined)

Bodies ==
  {Body("salad", "d1", "t1", "true"),
   Body("salad", "d1", "t1", "false"),
   Body(Undefined, "d1", "t1", "true"),
   Body("salad", "d1", Undefined, "true"),
   Body("salad", "d1", "t1", Undefined),
   NoBody}

Cred(name, email, password) ==
  [name |-> name, email |-> email, password |-> password]

NoCred == Cred(Undefined, Undefined, Undefined)

\* bodies of POST /users
Creds ==
  {Cred(n, e, p) : n \in Names, e \in Emails \cup {Undefined},
                   p \in Passwords \cup {Undefined}}

\* bodies of POST /login
Logins ==
  {Cred(Undefined, e, p) : e \in Emails \cup {Undefined},
                           p \in Guesses \cup {Undefined}}

-----------------------------------------------------------------------------
(* The store: what knex and SQLite do with a value.                         *)

\* undefined is bound as NULL (useNullAsDefault)
SqlText(v) == IF v = Undefined THEN NULL ELSE v

\* a JS boolean is bound as the integer 1 or 0; -1 stands for NULL
SqlBool(v) == IF v = "true" THEN 1 ELSE IF v = "false" THEN 0 ELSE -1

\* the NOT NULL columns of meals: name, datetime, on_diet
MealRowOk(row) ==
  row.name # NULL /\ row.datetime # NULL /\ row.on_diet # -1

\* a users table whose email column is not unique
UserRowOkNoUnique(row, table) == row.name # NULL /\ row.email # NULL

\* the NOT NULL columns of users, and UNIQUE(email)
UserRowOk(row, table) ==
  /\ row.name # NULL /\ row.email # NULL
  /\ \A i \in 1..Len(table) : table[i].email # row.email

\* an insert that leaves the owner column out
MealRowOwnerless(id, f, user_id) ==
  [id |-> id, name |-> SqlText(f.name), description |-> SqlText(f.description),
   datetime |-> SqlText(f.datetime), on_diet |-> SqlBool(f.on_diet),
   user_id |-> 0]

MealRow(id, f, user_id) ==
  [id |-> id, name |-> SqlText(f.name), description |-> SqlText(f.description),
   datetime |-> SqlText(f.datetime), on_diet |-> SqlBool(f.on_diet),
   user_id |-> user_id]

\* positions of the rows a where({ id, user_id }) selects
OwnedRows(table, id, userId) ==
  {i \in 1..Len(table) : table[i].id = id /\ table[i].user_id = userId}

\* a where clause without the owner
MatchesIdOnly(row, id, user_id) == row.id = id

\* .where({ id, user_id })
Matches(row, id, user_id) == row.id = id /\ row.user_id = user_id

\* a select without where clause
SelectAll(table, user_id) == table

\* db('meals').where({ user_id })
SelectByUser(table, user_id) ==
  SelectSeq(table, LAMBDA row : row.user_id = user_id)

\* db('meals').where({ id, user_id })
SelectByIdUser(table, id, user_id) ==
  SelectSeq(table, LAMBDA row : Matches(row, id, user_id))

\* .update(data): knex leaves out the keys whose value is undefined
UpdateRow(row, f) ==
  [row EXCEPT
     !.name        = IF f.name = Undefined THEN @ ELSE SqlText(f.name),
     !.description = IF f.description = Undefined THEN @ ELSE SqlText(f.description),
     !.datetime    = IF f.datetime = Undefined THEN @ ELSE SqlText(f.datetime),
     !.on_diet     = IF f.on_diet = Undefined THEN @ ELSE SqlBool(f.on_diet)]

\* an update that writes the new version of a row at the end of the table
UpdateWhereMoved(table, id, user_id, f) ==
  SelectSeq(table, LAMBDA row : ~Matches(row, id, user_id))
    \o [i \in 1..Len(SelectSeq(table, LAMBDA row : Matches(row, id, user_id))) |->
          UpdateRow(SelectSeq(table, LAMBDA row : Matches(row, id, user_id))[i], f)]

UpdateWhere(table, id, user_id, f) ==
  [i \in 1..Len(table) |->
     IF Matches(table[i], id, user_id) THEN UpdateRow(table[i], f) ELSE table[i]]

\* .del()
DeleteWhere(table, id, user_id) ==
  SelectSeq(table, LAMBDA row : ~Matches(row, id, user_id))

-----------------------------------------------------------------------------
(* GET /metrics: the computation over the rows of the caller.               *)

\* JS truthiness of the stored on_diet
Truthy(v) == v # 0

Inside(rows) == Len(SelectSeq(rows, LAMBDA m : Truthy(m.on_diet)))

\* the for loop: the state after the rows i..Len(rows), given current, bestSeq
RECURSIVE BestSeqLoop(_, _, _, _)
BestSeqLoop(rows, i, current, bestSeq) ==
  IF i > Len(rows) THEN bestSeq
  ELSE LET c == IF Truthy(rows[i].on_diet) THEN current + 1 ELSE 0
           b == IF c > bestSeq THEN c ELSE bestSeq
       IN  BestSeqLoop(rows, i + 1, c, b)

\* the loop without the reset: every on-diet row counts
BestSeqNoReset(rows) == Inside(rows)

\* the loop without the maximum: the run the sequence ends with
RECURSIVE CurrentLoop(_, _, _)
CurrentLoop(rows, i, current) ==
  IF i > Len(rows) THEN current
  ELSE CurrentLoop(rows, i + 1, IF Truthy(rows[i].on_diet) THEN current + 1 ELSE 0)

BestSeqCurrent(rows) == CurrentLoop(rows, 1, 0)

BestSeq(rows) == BestSeqLoop(rows, 1, 0, 0)

Outside(total, inside) == total - inside

Metrics(rows) ==
  LET total  == Len(rows)
      inside == Inside(rows)
  IN  [total |-> total, inside |-> inside, outside |-> Outside(total, inside),
       bestSequence |-> BestSeq(rows)]

-----------------------------------------------------------------------------
(* Requests and responses *)

NoRequest ==
  [op |-> "", hdr |-> <<>>, userId |-> 0, id |-> 0, fields |-> NoBody,
   cred |-> NoCred, status |-> 0, msg |-> "", body |-> <<>>]

\* A request being handled, before its first step: pc is the await it is at,
\* ticket, need and seen are history
NoFlight ==
  [pc |-> "idle", op |-> "", hdr |-> <<>>, userId |-> 0, id |-> 0,
   fields |-> NoBody, cred |-> NoCred, hash |-> <<>>,
   ticket |-> 0, need |-> {}, seen |-> 0, status |-> 0, msg |-> "", body |-> <<>>]

\* A handler whose promise rejects sends nothing itself: the request ends in
\* the framework's 500 or is left without response (status 0).
InternalFailure == {0, 500}

\* What a client can put in the Authorization header: nothing, a scheme alone,
\* a token it was issued, or one it made up from what it knows.
OtherId(id) == (id % MaxUsers) + 1

Tokens ==
  issued
    \cup {[t EXCEPT !.id = OtherId(t.id)] : t \in issued}
    \cup {[t EXCEPT !.exp = t.exp + ExpiresIn] : t \in issued}
    \cup {Garbage, jwt_sign(1, "guess", now)}

Headers == {<<>>, <<"Bearer">>} \cup {<<"Bearer", t>> : t \in Tokens}

\* the ids assigned so far and one that never was
MealIds == 1..(mealSeq + 1)

Rejected(op, hdr, a) ==
  [NoRequest EXCEPT !.op = op, !.hdr = hdr, !.status = a.status, !.msg = a.msg]

Answered(op, hdr, a, id, f, status, msg, body) ==
  [NoRequest EXCEPT !.op = op, !.hdr = hdr, !.userId = a.userId, !.id = id,
                    !.fields = f, !.status = status, !.msg = msg, !.body = body]

Failed(op, hdr, a, id, f, status) ==
  Answered(op, hdr, a, id, f, status, "", <<>>)

-----------------------------------------------------------------------------
(* What each route answers, given the table it reads *)

\* res.json of a stored flag: SQLite hands a boolean column back as the integer
\* it stored, and JSON writes that integer as a number (-1 stands for NULL)
JsonValue(v) == IF v = 1 THEN "1" ELSE IF v = 0 THEN "0" ELSE "null"

GetMealsResult(table, userId) ==
  [status |-> 200, msg |-> "", body |-> SelectByUser(table, userId)]

\* a get that tells a meal of another owner from a meal that does not exist
GetMealResultForbidden(table, id, userId) ==
  LET found == SelectByIdUser(table, id, userId) IN
  IF found # <<>>
    THEN [status |-> 200, msg |-> "", body |-> <<found[1]>>]
  ELSE IF \E i \in 1..Len(table) : table[i].id = id
    THEN [status |-> 403, msg |-> "Forbidden", body |-> <<>>]
    ELSE [status |-> 404, msg |-> "Meal not found", body |-> <<>>]

GetMealResult(table, id, userId) ==
  LET found == SelectByIdUser(table, id, userId) IN
  IF found = <<>>
    THEN [status |-> 404, msg |-> "Meal not found", body |-> <<>>]
    ELSE [status |-> 200, msg |-> "", body |-> <<found[1]>>]

PutMealResult(table, id, userId) ==
  [status |-> 200, msg |-> "Meal updated", body |-> <<>>]

DeleteMealResult(table, id, userId) ==
  [status |-> 200, msg |-> "Meal deleted", body |-> <<>>]

\* metrics that answer 404 to an owner without meals
GetMetricsResultEmpty(table, userId) ==
  IF SelectByUser(table, userId) = <<>>
    THEN [status |-> 404, msg |-> "Meal not found", body |-> <<>>]
    ELSE [status |-> 200, msg |-> "", body |-> <<Metrics(SelectByUser(table, userId))>>]

\* metrics over the meals of every owner
GetMetricsResultUnscoped(table, userId) ==
  [status |-> 200, msg |-> "", body |-> <<Metrics(table)>>]

GetMetricsResult(table, userId) ==
  [status |-> 200, msg |-> "", body |-> <<Metrics(SelectByUser(table, userId))>>]

-----------------------------------------------------------------------------
(* Initial state: both tables exist and are empty *)

Init ==
  /\ users = <<>> /\ userSeq = 0
  /\ meals = <<>> /\ mealSeq = 0
  /\ now = 0 /\ ticks = 0
  /\ issued = {}
  /\ created = <<>>
  /\ last = NoRequest
  /\ input = <<>> /\ output = <<>>
  /\ flight = EmptyBag
  /\ writeSeq = 0 /\ log = <<>> /\ returned = {}

store == <<users, userSeq, meals, mealSeq, created>>
engine == <<input, output>>
overlap == <<flight, writeSeq, log, returned>>

-----------------------------------------------------------------------------
(* POST /users *)

PostUsers ==
  /\ last = NoRequest
  /\ \E c \in Creds :
       LET row == [id |-> userSeq + 1, name |-> SqlText(c.name),
                   email |-> SqlText(c.email),
                   password |-> bcrypt_hash(c.password)]
           req == [NoRequest EXCEPT !.op = "POST /users", !.cred = c]
       IN
       IF c.password # Undefined /\ UserRowOk(row, users)
         THEN /\ userSeq < MaxUsers
              /\ users' = Append(users, row)
              /\ userSeq' = userSeq + 1
              /\ last' = [req EXCEPT !.status = 201, !.msg = "User created"]
         \* bcrypt.hash throws on undefined; the INSERT fails on a constraint
         ELSE /\ \E s \in InternalFailure : last' = [req EXCEPT !.status = s]
              /\ UNCHANGED <<users, userSeq>>
  /\ UNCHANGED <<meals, mealSeq, created, now, ticks, issued, engine, overlap>>

(* POST /login *)

PostLogin ==
  /\ last = NoRequest
  /\ \E c \in Logins :
       LET found == SelectSeq(users, LAMBDA u : u.email = c.email)
           req == [NoRequest EXCEPT !.op = "POST /login", !.cred = c]
       IN
       \* knex refuses an undefined binding; bcrypt.compare throws on undefined
       IF c.email = Undefined \/ (found # <<>> /\ c.password = Undefined)
         THEN /\ \E s \in InternalFailure : last' = [req EXCEPT !.status = s]
              /\ UNCHANGED issued
       ELSE IF found = <<>> \/ ~bcrypt_compare(c.password, found[1].password)
         THEN /\ last' = [req EXCEPT !.status = 401, !.msg = "Invalid credentials"]
              /\ UNCHANGED issued
       ELSE LET token == jwt_sign(found[1].id, JWT_SECRET, now) IN
              /\ token \in issued \/ Cardinality(issued) < MaxTokens
              /\ issued' = issued \cup {token}
              /\ last' = [req EXCEPT !.status = 200, !.userId = found[1].id,
                                     !.body = <<token>>]
  /\ UNCHANGED <<store, now, ticks, engine, overlap>>

(* POST /meals *)

PostMeals ==
  /\ last = NoRequest
  /\ \E hdr \in Headers, f \in Bodies :
       LET a == authenticate(hdr, now)
           row == MealRow(mealSeq + 1, f, a.userId)
       IN
       IF ~a.next
         THEN last' = Rejected("POST /meals", hdr, a) /\ UNCHANGED <<meals, mealSeq, created>>
       ELSE IF ~MealRowOk(row)
         THEN /\ \E s \in InternalFailure :
                   last' = Failed("POST /meals", hdr, a, 0, f, s)
              /\ UNCHANGED <<meals, mealSeq, created>>
       ELSE /\ mealSeq + ticks < MaxEvents
            /\ meals' = Append(meals, row)
            /\ mealSeq' = mealSeq + 1
            /\ created' = Append(created, row.id)
            /\ last' = Answered("POST /meals", hdr, a, 0, f, 201, "Meal added", <<>>)
  /\ UNCHANGED <<users, userSeq, now, ticks, issued, engine, overlap>>

(* GET /meals *)

GetMeals ==
  /\ last = NoRequest
  /\ \E hdr \in Headers :
       LET a == authenticate(hdr, now)
           r == GetMealsResult(meals, a.userId)
       IN
       IF ~a.next
         THEN last' = Rejected("GET /meals", hdr, a)
         ELSE last' = Answered("GET /meals", hdr, a, 0, NoBody, r.status, r.msg, r.body)
  /\ UNCHANGED <<store, now, ticks, issued, engine, overlap>>

(* GET /meals/:id *)

GetMeal ==
  /\ last = NoRequest
  /\ \E hdr \in Headers, id \in MealIds :
       LET a == authenticate(hdr, now)
           r == GetMealResult(meals, id, a.userId)
       IN
       IF ~a.next
         THEN last' = Rejected("GET /meals/:id", hdr, a)
         ELSE last' = Answered("GET /meals/:id", hdr, a, id, NoBody,
                               r.status, r.msg, r.body)
  /\ UNCHANGED <<store, now, ticks, issued, engine, overlap>>

(* PUT /meals/:id *)

PutMeal ==
  /\ last = NoRequest
  /\ \E hdr \in Headers, id \in MealIds, f \in Bodies :
       LET a == authenticate(hdr, now)
           r == PutMealResult(meals, id, a.userId)
       IN
       IF ~a.next
         THEN last' = Rejected("PUT /meals/:id", hdr, a) /\ UNCHANGED meals
       \* knex throws on an update without any value
       ELSE IF f = NoBody
         THEN /\ \E s \in InternalFailure :
                   last' = Failed("PUT /meals/:id", hdr, a, id, f, s)
              /\ UNCHANGED meals
       ELSE /\ meals' = UpdateWhere(meals, id, a.userId, f)
            /\ last' = Answered("PUT /meals/:id", hdr, a, id, f,
                                r.status, r.msg, r.body)
  /\ UNCHANGED <<users, userSeq, mealSeq, created, now, ticks, issued, engine, overlap>>

(* DELETE /meals/:id *)

DeleteMeal ==
  /\ last = NoRequest
  /\ \E hdr \in Headers, id \in MealIds :
       LET a == authenticate(hdr, now)
           r == DeleteMealResult(meals, id, a.userId)
       IN
       IF ~a.next
         THEN last' = Rejected("DELETE /meals/:id", hdr, a) /\ UNCHANGED meals
         ELSE /\ meals' = DeleteWhere(meals, id, a.userId)
              /\ last' = Answered("DELETE /meals/:id", hdr, a, id, NoBody,
                                  r.status, r.msg, r.body)
  /\ UNCHANGED <<users, userSeq, mealSeq, created, now, ticks, issued, engine, overlap>>

(* GET /metrics *)

GetMetrics ==
  /\ last = NoRequest
  /\ \E hdr \in Headers :
       LET a == authenticate(hdr, now)
           r == GetMetricsResult(meals, a.userId)
       IN
       IF ~a.next
         THEN last' = Rejected("GET /metrics", hdr, a)
         ELSE last' = Answered("GET /metrics", hdr, a, 0, NoBody, r.status, r.msg, r.body)
  /\ UNCHANGED <<store, now, ticks, issued, engine, overlap>>

(* The client takes the response; the next request can be handled *)

Receive ==
  /\ last # NoRequest
  /\ last' = NoRequest
  /\ UNCHANGED <<store, now, ticks, issued, engine, overlap>>

(* Time passes.  The clock is looked at around the instants at which a     *)
(* token issued at an earlier instant expires: one second before each and  *)
(* at each.                                                                *)

Step(k) == IF k % 2 = 0 THEN ExpiresIn - 1 ELSE 1

Tick ==
  /\ last = NoRequest
  /\ mealSeq + ticks < MaxEvents
  /\ now' = now + Step(ticks)
  /\ ticks' = ticks + 1
  /\ UNCHANGED <<store, issued, last, engine, overlap>>

Next ==
  \/ PostUsers \/ PostLogin
  \/ PostMeals \/ GetMeals \/ GetMeal \/ PutMeal \/ DeleteMeal \/ GetMetrics
  \/ Receive \/ Tick

Spec == Init /\ [][Next]_vars

-----------------------------------------------------------------------------
(* The metrics computation on its own, over every sequence of rows of one  *)
(* owner up to MaxInput rows.                                              *)

EngineRow(i, on_diet) ==
  [id |-> i, name |-> "salad", description |-> "d1", datetime |-> "t1",
   on_diet |-> on_diet, user_id |-> 1]

EngineInputs ==
  UNION {{[i \in 1..n |-> EngineRow(i, flags[i])] : flags \in [1..n -> {0, 1}]}
           : n \in 0..MaxInput}

InitEngine ==
  /\ users = <<>> /\ userSeq = 0
  /\ meals = <<>> /\ mealSeq = 0
  /\ now = 0 /\ ticks = 0
  /\ issued = {}
  /\ created = <<>>
  /\ last = NoRequest
  /\ input \in EngineInputs
  /\ output = <<>>
  /\ flight = EmptyBag
  /\ writeSeq = 0 /\ log = <<>> /\ returned = {}

Compute ==
  /\ output = <<>>
  /\ output' = <<Metrics(input)>>
  /\ UNCHANGED <<store, now, ticks, issued, last, input, overlap>>

NextEngine == Compute

SpecEngine == InitEngine /\ [][NextEngine]_vars

-----------------------------------------------------------------------------
(* Handlers running together.  Node runs one handler until its next await   *)
(* and may run any other handler in between; SQLite runs the statements    *)
(* one at a time.  A request goes from await to await and leaves when its  *)
(* response is sent.  The clock stands still.                              *)

\* an Authorization header of a client that logged in, or none
Bearers == {<<>>} \cup {<<"Bearer", t>> : t \in issued}

WriteOps == {"POST /meals", "PUT /meals/:id", "DELETE /meals/:id"}
ListOps == {"GET /meals", "GET /metrics"}

Call(op, id, f) == [op |-> op, id |-> id, fields |-> f]

\* bodies with every field, and the body with none
WholeBodies ==
  {f \in Bodies : \/ f = NoBody
                  \/ /\ f.name # Undefined /\ f.datetime # Undefined
                     /\ f.on_diet # Undefined}

\* the requests that write meals and the requests that list them
Calls ==
  {Call("POST /meals", 0, f) : f \in WholeBodies}
    \cup {Call("PUT /meals/:id", id, f) : id \in MealIds, f \in WholeBodies}
    \cup {Call("DELETE /meals/:id", id, NoBody) : id \in MealIds}
    \cup {Call(op, 0, NoBody) : op \in ListOps}

Running == BagToSet(flight)

Busy(op) == BagCardinality([r \in {q \in Running : q.op = op} |-> flight[r]])

\* a request arrives / a request goes from one await to the next / leaves
Arrive(r) == flight (+) SetToBag({r})
Leave(r) == flight (-) SetToBag({r})
Advance(r, q) == Leave(r) (+) SetToBag({q})

\* res.send sent nothing before the statement it follows was awaited
AwaitedNever(r) == r.pc \in {"stmt", "respond"}

\* res.send comes after the await of the handler's last statement
Awaited(r) == r.pc = "respond"

Respond(r, status, msg, body) ==
  [r EXCEPT !.pc = "respond", !.status = status, !.msg = msg, !.body = body]

\* what a statement did, for the history
Effect(r, kind, id, row) ==
  [ticket |-> r.ticket, kind |-> kind, id |-> id, row |-> row]

NoRow == MealRow(0, NoBody, 0)

(* POST /users: bcrypt.hash, then the insert *)

RegisterBegin ==
  \E c \in Creds :
    /\ BagCardinality(flight) < MaxFlight
    /\ userSeq + Busy("POST /users") < MaxUsers
    /\ flight' = Arrive([NoFlight EXCEPT !.pc = "hash", !.op = "POST /users",
                                         !.cred = c])
    /\ UNCHANGED <<store, issued, now, ticks, last, engine, writeSeq, log, returned>>

RegisterHash ==
  \E r \in Running :
    /\ r.pc = "hash"
    /\ IF r.cred.password = Undefined
         THEN \E st \in InternalFailure : flight' = Advance(r, Respond(r, st, "", <<>>))
         ELSE flight' = Advance(r, [r EXCEPT !.pc = "insert",
                                             !.hash = bcrypt_hash(r.cred.password)])
    /\ UNCHANGED <<store, issued, now, ticks, last, engine, writeSeq, log, returned>>

RegisterInsert ==
  \E r \in Running :
    /\ r.pc = "insert"
    /\ LET row == [id |-> userSeq + 1, name |-> SqlText(r.cred.name),
                   email |-> SqlText(r.cred.email), password |-> r.hash]
       IN
       IF UserRowOk(row, users)
         THEN /\ users' = Append(users, row)
              /\ userSeq' = userSeq + 1
              /\ flight' = Advance(r, Respond(r, 201, "User created", <<>>))
         ELSE /\ \E st \in InternalFailure :
                   flight' = Advance(r, Respond(r, st, "", <<>>))
              /\ UNCHANGED <<users, userSeq>>
    /\ UNCHANGED <<meals, mealSeq, created, issued, now, ticks, last, engine,
                   writeSeq, log, returned>>

(* The routes that write and list meals: authenticate, then the one         *)
(* statement.  One owner's client writes at will and has one list or       *)
(* metrics request under way at a time.                                    *)

MealBegin ==
  \E hdr \in Bearers, c \in Calls :
    LET a == authenticate(hdr, now)
        r == [NoFlight EXCEPT !.pc = "stmt", !.op = c.op, !.hdr = hdr,
                              !.userId = a.userId, !.id = c.id, !.fields = c.fields]
    IN
    /\ BagCardinality(flight) < MaxFlight
    /\ IF ~a.next
         \* authenticate sends the 401 itself: the request waits for nothing
         THEN UNCHANGED <<flight, writeSeq>>
       ELSE IF c.op \in WriteOps
         THEN /\ writeSeq < MaxWrites
              /\ writeSeq' = writeSeq + 1
              /\ flight' = Arrive([r EXCEPT !.ticket = writeSeq + 1])
       ELSE /\ \A q \in Running : q.op \notin ListOps
            /\ flight' = Arrive([r EXCEPT !.need =
                                   {w \in returned : w[2] = a.userId}])
            /\ UNCHANGED writeSeq
    /\ UNCHANGED <<store, issued, now, ticks, last, engine, log, returned>>

WriteStmt ==
  \E r \in Running :
    LET hit == OwnedRows(meals, r.id, r.userId) # {} IN
    /\ r.pc = "stmt" /\ r.op \in WriteOps
    /\ CASE r.op = "POST /meals" ->
              LET row == MealRow(mealSeq + 1, r.fields, r.userId) IN
              IF MealRowOk(row)
                THEN /\ meals' = Append(meals, row)
                     /\ mealSeq' = mealSeq + 1
                     /\ created' = Append(created, row.id)
                     /\ log' = Append(log, Effect(r, "create", row.id, row))
                     /\ flight' = Advance(r, Respond(r, 201, "Meal added", <<>>))
                ELSE /\ \E st \in InternalFailure :
                          flight' = Advance(r, Respond(r, st, "", <<>>))
                     /\ log' = Append(log, Effect(r, "none", 0, NoRow))
                     /\ UNCHANGED <<meals, mealSeq, created>>
         [] r.op = "PUT /meals/:id" ->
              LET res == PutMealResult(meals, r.id, r.userId)
                  table == UpdateWhere(meals, r.id, r.userId, r.fields)
              IN
              /\ IF r.fields = NoBody
                   THEN /\ \E st \in InternalFailure :
                             flight' = Advance(r, Respond(r, st, "", <<>>))
                        /\ log' = Append(log, Effect(r, "none", 0, NoRow))
                        /\ UNCHANGED meals
                   ELSE /\ meals' = table
                        /\ flight' = Advance(r, Respond(r, res.status, res.msg, res.body))
                        /\ log' = Append(log,
                             IF hit
                               THEN Effect(r, "update", r.id,
                                      table[CHOOSE i \in OwnedRows(meals, r.id, r.userId) : TRUE])
                               ELSE Effect(r, "none", 0, NoRow))
              /\ UNCHANGED <<mealSeq, created>>
         [] OTHER ->
              LET res == DeleteMealResult(meals, r.id, r.userId) IN
              /\ meals' = DeleteWhere(meals, r.id, r.userId)
              /\ flight' = Advance(r, Respond(r, res.status, res.msg, res.body))
              /\ log' = Append(log, IF hit THEN Effect(r, "delete", r.id, NoRow)
                                           ELSE Effect(r, "none", 0, NoRow))
              /\ UNCHANGED <<mealSeq, created>>
    /\ UNCHANGED <<users, userSeq, issued, now, ticks, last, engine, writeSeq, returned>>

ListStmt ==
  \E r \in Running :
    LET res == IF r.op = "GET /meals" THEN GetMealsResult(meals, r.userId)
                                      ELSE GetMetricsResult(meals, r.userId)
    IN
    /\ r.pc = "stmt" /\ r.op \in ListOps
    /\ flight' = Advance(r, [Respond(r, res.status, res.msg, res.body)
                               EXCEPT !.seen = Len(log)])
    /\ UNCHANGED <<store, issued, now, ticks, last, engine, writeSeq, log, returned>>

(* The response leaves.  A request whose handler failed leaves as well and *)
(* counts as answered.                                                     *)

Send ==
  \E r \in Running :
    /\ Awaited(r)
    /\ flight' = Leave(r)
    /\ returned' = IF r.ticket # 0 THEN returned \cup {<<r.ticket, r.userId>>}
                                   ELSE returned
    /\ UNCHANGED <<store, issued, now, ticks, last, engine, writeSeq, log>>

(* Registrations running together, from the empty store *)

NextRegister == RegisterBegin \/ RegisterHash \/ RegisterInsert \/ Send

SpecRegister == Init /\ [][NextRegister]_vars

(* Meal requests running together, for an identity that registered and     *)
(* logged in before                                                        *)

Registered(id, email) ==
  [id |-> id, name |-> "n", email |-> email, password |-> bcrypt_hash("pw1")]

InitOverlap ==
  /\ users = <<Registered(1, "ana@x")>> /\ userSeq = 1
  /\ meals = <<>> /\ mealSeq = 0
  /\ now = 0 /\ ticks = 0
  /\ issued = {jwt_sign(1, JWT_SECRET, 0)}
  /\ created = <<>>
  /\ last = NoRequest
  /\ input = <<>> /\ output = <<>>
  /\ flight = EmptyBag
  /\ writeSeq = 0 /\ log = <<>> /\ returned = {}

NextOverlap == MealBegin \/ WriteStmt \/ ListStmt \/ Send

SpecOverlap == InitOverlap /\ [][NextOverlap]_vars

-----------------------------------------------------------------------------
(* Properties *)

\* the identity a presented header was issued to by POST /login, 0 if none
IssuedTo(hdr) ==
  IF Len(hdr) >= 2 /\ hdr[2] \in issued THEN hdr[2].id ELSE 0

\* the request just answered went through authenticate into its handler
Authenticated(r) == r.userId # 0 /\ r.op \notin {"", "POST /users", "POST /login"}

\* C1. Isolation: whatever requests were made before, a request made with the
\* token of identity A is never answered with a meal of another identity B,
\* and it neither changes nor removes nor adds a meal of B.
IsolationStep ==
  LET A == IssuedTo(last'.hdr) IN
  /\ last'.op \in {"GET /meals", "GET /meals/:id"} =>
       \A k \in 1..Len(last'.body) : last'.body[k].user_id = A
  /\ \A i \in 1..Len(meals) :
       meals[i].user_id # A => \E j \in 1..Len(meals') : meals'[j] = meals[i]
  /\ \A j \in 1..Len(meals') :
       meals'[j].user_id # A => \E i \in 1..Len(meals) : meals[i] = meals'[j]

Isolation == [][IsolationStep]_vars

\* C1 witness: A's DELETE addressed a meal of B, which is still there.
IsolationWitness ==
  /\ last.op = "DELETE /meals/:id"
  /\ IssuedTo(last.hdr) # 0
  /\ \E i \in 1..Len(meals) :
       meals[i].id = last.id /\ meals[i].user_id # IssuedTo(last.hdr)

\* C2. get(identityId, mealId) answers NotFound, with the same response, when
\* no meal has the id and when the meal is another identity's; it answers the
\* meal exactly when the meal with that id is owned by identityId.
GetContract ==
  (last.op = "GET /meals/:id" /\ Authenticated(last)) =>
    LET own == OwnedRows(meals, last.id, last.userId) IN
    IF own = {}
      THEN last.status = 404 /\ last.msg = "Meal not found" /\ last.body = <<>>
      ELSE last.status = 200 /\ \E i \in own : last.body = <<meals[i]>>

\* C2 witness: a get of a meal that exists and is another identity's.
GetForeignWitness ==
  /\ last.op = "GET /meals/:id" /\ Authenticated(last)
  /\ last.status = 404
  /\ \E i \in 1..Len(meals) : meals[i].id = last.id

\* C3. update(identityId, mealId, fields) answers NotFound whenever no meal
\* with mealId is owned by identityId.
UpdateNotFound ==
  [][(last'.op = "PUT /meals/:id" /\ Authenticated(last')
        /\ OwnedRows(meals, last'.id, last'.userId) = {})
       => last'.status = 404]_vars

\* C4. delete(identityId, mealId) answers NotFound whenever no meal with
\* mealId is owned by identityId, as on the second delete of the same meal.
DeleteNotFound ==
  [][(last'.op = "DELETE /meals/:id" /\ Authenticated(last')
        /\ OwnedRows(meals, last'.id, last'.userId) = {})
       => last'.status = 404]_vars

\* C5. list(identityId) answers exactly the meals stored with
\* ownerId = identityId, each once.
ListExact ==
  (last.op = "GET /meals" /\ Authenticated(last)) =>
    /\ last.status = 200
    /\ Range(last.body) = {r \in Range(meals) : r.user_id = last.userId}
    /\ \A i, j \in 1..Len(last.body) : last.body[i] = last.body[j] => i = j

\* C5 witness: a list of two meals while another identity has a meal too.
ListExactWitness ==
  /\ last.op = "GET /meals" /\ Authenticated(last)
  /\ Len(last.body) >= 2
  /\ \E r \in Range(meals) : r.user_id # last.userId

\* position of a meal id in the history of inserts
CreatedAt(id) == CHOOSE k \in 1..Len(created) : created[k] = id

InCreationOrder(rows) ==
  \A i, j \in 1..Len(rows) : i < j => CreatedAt(rows[i].id) < CreatedAt(rows[j].id)

\* C6. The rows list answers, and the rows the metrics computation scans, are
\* in the order in which the meals were created, whatever updates and deletes
\* happened since.
ListOrder ==
  /\ (last.op = "GET /meals" /\ Authenticated(last)) => InCreationOrder(last.body)
  /\ \A u \in 1..userSeq : InCreationOrder(SelectByUser(meals, u))

\* C6 witness: a list of the first and the third meal created, the second
\* being deleted.
ListOrderWitness ==
  /\ last.op = "GET /meals" /\ Authenticated(last)
  /\ Len(last.body) = 2
  /\ last.body[1].id = 1 /\ last.body[2].id = 3
  /\ \A r \in Range(meals) : r.id # 2

\* the longest run of consecutive on-diet rows, by definition
LongestRun(rows) ==
  LET runs == {<<i, j>> \in (1..Len(rows)) \X (1..Len(rows)) :
                 i <= j /\ \A k \in i..j : rows[k].on_diet # 0}
      lens == {r[2] - r[1] + 1 : r \in runs} \cup {0}
  IN  CHOOSE n \in lens : \A m \in lens : m <= n

ExampleFlags == <<"true", "true", "false", "true", "true", "true", "false">>

IsExample(rows) ==
  /\ Len(rows) = Len(ExampleFlags)
  /\ \A i \in 1..Len(rows) : rows[i].on_diet = SqlBool(ExampleFlags[i])

\* C7. For every sequence of an owner's meals, bestStreak is the length of the
\* longest run of consecutive meals with onDiet = true; the flags
\* [true, true, false, true, true, true, false] give total 7, inside 5,
\* outside 2, bestStreak 3.
StreakCorrect ==
  output # <<>> =>
    /\ output[1].bestSequence = LongestRun(input)
    /\ IsExample(input) =>
         output[1] = [total |-> 7, inside |-> 5, outside |-> 2, bestSequence |-> 3]

\* C7 witness: the metrics of the example sequence are computed.
StreakWitness == output # <<>> /\ IsExample(input)

\* C8. Every metrics result has inside + outside = total, bestStreak <= total,
\* and bestStreak = 0 exactly when the owner has no meal with onDiet = true.
MetricsInvariants ==
  (last.op = "GET /metrics" /\ Authenticated(last)) =>
    LET m == last.body[1]
        onDiet == {i \in 1..Len(meals) :
                     meals[i].user_id = last.userId /\ meals[i].on_diet # 0}
    IN  /\ m.inside + m.outside = m.total
        /\ m.bestSequence <= m.total
        /\ m.bestSequence = 0 <=> onDiet = {}

\* C8 witness: metrics of an owner with meals on and off the diet.
MetricsWitness ==
  /\ last.op = "GET /metrics" /\ Authenticated(last)
  /\ last.body[1].inside >= 1 /\ last.body[1].outside >= 1

AuthOps ==
  {"POST /meals", "GET /meals", "GET /meals/:id", "PUT /meals/:id",
   "DELETE /meals/:id", "GET /metrics"}

\* C9. A token is valid exactly when it was signed with the shared secret, as
\* the tokens POST /login issues are and no other, and the time is strictly
\* before its expiry, 24 hours after it was issued: until then it verifies to
\* the id it was issued for, from then on requests with it get 401.
TokenValidity ==
  /\ \A t \in Tokens :
       LET v == jwt_verify(t, JWT_SECRET, now) IN
       /\ ~v.err <=> (t \in issued /\ now < t.exp)
       /\ ~v.err => v.id = t.id
  /\ \A t \in issued : t.exp = t.iat + 24 * 60 * 60 /\ t.iat <= now
  /\ (last.op = "POST /login" /\ last.status = 200) =>
       /\ last.body[1].exp = now + 24 * 60 * 60
       /\ \E i \in 1..Len(users) :
            users[i].email = last.cred.email /\ users[i].id = last.body[1].id
  /\ (last.op \in AuthOps /\ IssuedTo(last.hdr) # 0) =>
       IF now < last.hdr[2].exp
         THEN last.status # 401 /\ last.userId = last.hdr[2].id
         ELSE last.status = 401

\* C9 witness: a request with an issued token at the instant of its expiry.
TokenExpiryWitness ==
  /\ last.op \in AuthOps /\ IssuedTo(last.hdr) # 0
  /\ now = last.hdr[2].exp

\* the header carries a token POST /login issued that has not expired
ValidCredential(hdr) ==
  Len(hdr) >= 2 /\ hdr[2] \in issued /\ now < hdr[2].exp

\* C10. Every operation behind authenticate, asked with a missing, malformed,
\* wrongly signed or expired token, answers 401 with no data and leaves both
\* tables as they were; with a valid token it runs as the identity whose id is
\* in the token.
AuthGateStep ==
  last'.op \in AuthOps =>
    IF ValidCredential(last'.hdr)
      THEN /\ last'.status # 401
           /\ last'.userId = last'.hdr[2].id
           /\ last'.status = 201 =>
                meals'[Len(meals')].user_id = last'.hdr[2].id
      ELSE /\ last'.status = 401 /\ last'.body = <<>> /\ last'.userId = 0
           /\ UNCHANGED <<users, userSeq, meals, mealSeq>>

AuthGate == [][AuthGateStep]_vars

\* C10 witness: an update asked with a well-formed token that was never
\* issued is refused while the table has meals.
AuthGateWitness ==
  /\ last.op = "PUT /meals/:id" /\ last.status = 401
  /\ Len(last.hdr) >= 2 /\ last.hdr[2].wf /\ last.hdr[2] \notin issued
  /\ meals # <<>>

\* the identities whose email and password are the ones of a login body
Holders(c) ==
  {i \in 1..Len(users) :
     users[i].email = c.email /\ users[i].password = <<"$2a$08$", c.password>>}

\* C11. A login with the wrong secret for a registered email and a login with
\* an email that is not registered get the same answer, 401, and no token is
\* issued; a token is issued only for a registered email with its secret, and
\* it carries the id of the identity with that email.
LoginStep ==
  (last'.op = "POST /login" /\ last'.cred.email # Undefined
                            /\ last'.cred.password # Undefined) =>
    IF Holders(last'.cred) = {}
      THEN /\ last'.status = 401 /\ last'.msg = "Invalid credentials"
           /\ last'.body = <<>>
           /\ issued' = issued
      ELSE /\ last'.status = 200
           /\ \E i \in Holders(last'.cred) : last'.body[1].id = users[i].id
           /\ issued' = issued \cup {last'.body[1]}

LoginContract == [][LoginStep]_vars

\* C11 witness: a login with the wrong secret for a registered email.
LoginWrongSecretWitness ==
  /\ last.op = "POST /login" /\ last.status = 401
  /\ last.cred.password # Undefined
  /\ \E i \in 1..Len(users) : users[i].email = last.cred.email

\* C12. A register request whose email is already held by an identity is
\* answered with Conflict (409) and leaves the credential store unchanged.
RegisterConflictStep ==
  (/\ last'.op = "POST /users"
   /\ \E i \in 1..Len(users) : users[i].email = last'.cred.email) =>
    /\ last'.status = 409
    /\ users' = users /\ userSeq' = userSeq

RegisterConflict == [][RegisterConflictStep]_vars

\* C14. A create request in which name, datetime or on_diet is missing is
\* answered with ValidationError (400 or 422) and inserts no meal; any other
\* create request inserts exactly one meal whose owner is the caller.
CreateValidationStep ==
  (last'.op = "POST /meals" /\ ValidCredential(last'.hdr)) =>
    IF \/ last'.fields.name = Undefined
       \/ last'.fields.datetime = Undefined
       \/ last'.fields.on_diet = Undefined
      THEN last'.status \in {400, 422} /\ meals' = meals
      ELSE /\ Len(meals') = Len(meals) + 1
           /\ \A i \in 1..Len(meals) : meals'[i] = meals[i]
           /\ meals'[Len(meals')].user_id = IssuedTo(last'.hdr)

CreateValidation == [][CreateValidationStep]_vars

\* C15. A successful create followed at once by a get of the assigned id
\* answers a record equal to the create's input in name, description,
\* datetime and on_diet.
RoundTripStep ==
  (last'.op = "POST /meals" /\ last'.status = 201) =>
    LET r == GetMealResult(meals', mealSeq', last'.userId) IN
      /\ r.status = 200
      /\ r.body[1].name = last'.fields.name
      /\ r.body[1].description = last'.fields.description
      /\ r.body[1].datetime = last'.fields.datetime
      /\ JsonValue(r.body[1].on_diet) = last'.fields.on_diet

RoundTrip == [][RoundTripStep]_vars

OwnerExists ==
  \A i \in 1..Len(meals) :
    Cardinality({j \in 1..Len(users) : users[j].id = meals[i].user_id}) = 1

TokensRegistered ==
  \A t \in issued : \E j \in 1..Len(users) : users[j].id = t.id

IdentitiesKept ==
  /\ Len(users') >= Len(users)
  /\ \A j \in 1..Len(users) : users'[j] = users[j]

CreatedUnderToken ==
  \A i \in 1..Len(meals') :
    (\A k \in 1..Len(meals) : meals[k].id # meals'[i].id) =>
      /\ ValidCredential(last'.hdr)
      /\ meals'[i].user_id = IssuedTo(last'.hdr)

\* C16. Every stored meal has exactly one owner, and that owner is the id of
\* an existing identity: a meal is only ever inserted under the id of a
\* verified token, a token is only ever issued for a registered identity, and
\* an identity, once registered, is never changed or removed.
Referential ==
  /\ [](OwnerExists /\ TokensRegistered)
  /\ [][IdentitiesKept /\ CreatedUnderToken]_vars

\* C16 witness: meals of two different identities are stored.
ReferentialWitness ==
  /\ Len(users) = 2
  /\ \E i, k \in 1..Len(meals) : meals[i].user_id # meals[k].user_id
  /\ OwnerExists

\* C17. Metrics cannot fail and changes nothing: asked with a valid token it
\* answers one result and leaves both tables and the issued tokens as they
\* were, and for an owner without meals the result is all zeros.
MetricsTotalStep ==
  (last'.op = "GET /metrics" /\ ValidCredential(last'.hdr)) =>
    /\ last'.status = 200 /\ Len(last'.body) = 1
    /\ store' = store /\ issued' = issued
    /\ (\A r \in Range(meals) : r.user_id # IssuedTo(last'.hdr)) =>
         last'.body[1] = [total |-> 0, inside |-> 0, outside |-> 0, bestSequence |-> 0]

MetricsTotal == [][MetricsTotalStep]_vars

\* C17 witness: metrics of an owner without meals while another owner has some.
MetricsZeroWitness ==
  /\ last.op = "GET /metrics" /\ last.status = 200
  /\ last.body[1].total = 0
  /\ meals # <<>>

\* C20. The metrics are those of the owner's current list: total is the number
\* of meals the list answers, inside the number of them on the diet, outside
\* the rest, bestSequence the longest run of on-diet meals in the list, so a
\* deleted meal and an overwritten flag count for nothing.
MetricsOfList ==
  (last.op = "GET /metrics" /\ Authenticated(last)) =>
    LET list == GetMealsResult(meals, last.userId).body
        m == last.body[1]
    IN  /\ m.total = Len(list)
        /\ m.inside = Cardinality({i \in 1..Len(list) : list[i].on_diet # 0})
        /\ m.outside = Cardinality({i \in 1..Len(list) : list[i].on_diet = 0})
        /\ m.bestSequence = LongestRun(list)

\* C20 witness: with the second of three meals deleted, the first and the third
\* make a streak of two.
MetricsDeletedWitness ==
  /\ last.op = "GET /metrics" /\ Authenticated(last)
  /\ last.body[1].bestSequence = 2 /\ last.body[1].total = 2
  /\ mealSeq = 3
  /\ \A r \in Range(meals) : r.id # 2 /\ r.user_id = last.userId

\* C19. An update answered with success for a meal of the caller sets name,
\* description, datetime and on_diet of that meal to the values of the request
\* and leaves its id, its owner, every other meal and every identity as they
\* were.
UpdateReplacesStep ==
  (/\ last'.op = "PUT /meals/:id" /\ last'.status = 200
   /\ OwnedRows(meals, last'.id, last'.userId) # {}) =>
    /\ Len(meals') = Len(meals)
    /\ users' = users
    /\ \A i \in 1..Len(meals) :
         IF i \in OwnedRows(meals, last'.id, last'.userId)
           THEN meals'[i] = [id |-> meals[i].id, user_id |-> meals[i].user_id,
                             name |-> SqlText(last'.fields.name),
                             description |-> SqlText(last'.fields.description),
                             datetime |-> SqlText(last'.fields.datetime),
                             on_diet |-> SqlBool(last'.fields.on_diet)]
           ELSE meals'[i] = meals[i]

UpdateReplaces == [][UpdateReplacesStep]_vars

\* C13. No two identities have the same email, also when register requests
\* with the same email are handled together, their hash and insert steps
\* interleaved in any order.
UniqueEmail ==
  \A i, j \in 1..Len(users) : users[i].email = users[j].email => i = j

\* C13 witness: two register requests with the same email were both hashed
\* before either was answered; one was inserted, the other refused.
RegisterRaceWitness ==
  \E r, q \in Running :
    /\ r.op = "POST /users" /\ q.op = "POST /users"
    /\ r.cred.email = q.cred.email
    /\ r.pc = "respond" /\ r.status = 201
    /\ q.pc = "respond" /\ q.status # 201 /\ q.hash # <<>>

\* the statements SQLite had run when a list request read the table
Before(r) == SubSeq(log, 1, r.seen)

\* the last statement among h that changed meal id, 0 if none did
LastOn(h, id) ==
  LET ps == {p \in 1..Len(h) : h[p].id = id} IN
  IF ps = {} THEN 0 ELSE CHOOSE p \in ps : \A q \in ps : q <= p

\* the ids of the owner's meals after the statements h, in the order of creation
LiveIds(h, userId) ==
  SelectSeq([i \in 1..mealSeq |-> i],
            LAMBDA id : /\ LastOn(h, id) # 0
                        /\ h[LastOn(h, id)].kind # "delete"
                        /\ h[LastOn(h, id)].row.user_id = userId)

\* the owner's meals after the statements h: each as its last statement left it
MealsAfter(h, userId) ==
  [i \in 1..Len(LiveIds(h, userId)) |-> h[LastOn(h, LiveIds(h, userId)[i])].row]

\* C18. The answer of a list or metrics request is that of the owner's meals
\* as left by the statements run before its select, and among these are the
\* statements of every create, update and delete of the owner that was
\* answered before the request began: a created meal is there, an updated one
\* has its new fields, a deleted one is gone.
ListReflects ==
  \A r \in Running :
    (r.pc = "respond" /\ r.op \in ListOps) =>
      LET rows == MealsAfter(Before(r), r.userId) IN
      /\ \A w \in r.need : \E p \in 1..r.seen : log[p].ticket = w[1]
      /\ r.op = "GET /meals" => r.body = rows
      /\ r.op = "GET /metrics" =>
           /\ r.body[1].total = Len(rows)
           /\ r.body[1].inside = Cardinality({i \in 1..Len(rows) : rows[i].on_diet # 0})
           /\ r.body[1].bestSequence = LongestRun(rows)

\* C18 witness: a list began after a create was answered, an update begun
\* later ran before the list's select, and the list answers the updated meal.
ListReflectsWitness ==
  \E r \in Running :
    /\ Len(log) >= 2
    /\ r.pc = "respond" /\ r.op = "GET /meals"
    /\ r.need = {<<log[1].ticket, r.userId>>} /\ log[1].kind = "create"
    /\ r.seen = 2 /\ log[2].kind = "update"
    /\ r.body = <<log[2].row>> /\ log[2].row # log[1].row

====
